---- MODULE Spec2Model ----
(***************************************************************************)
(* The XMR statistics engine of js/xmr-math.ts (computeXmrStats and the    *)
(* functions it calls).                                                    *)
(*                                                                         *)
(* Numbers.  A JavaScript number is modelled as an exact fixed-point       *)
(* value: the integer v stands for v / Unit, Unit = 1000, so inputs may    *)
(* carry three decimal places.  Quantities the code computes before it     *)
(* rounds them (the mean, the limits) are exact rationals [n, d] in the    *)
(* same unit.  The representation error of binary floating point is not    *)
(* modelled: every number used here is handled as the exact decimal.       *)
(*                                                                         *)
(* Time.  fromDateStr yields the parsed instant in days since 2024-01-01   *)
(* (dayjs yields milliseconds; only differences and their sign are used).  *)
(* Only date strings that parse are modelled.                              *)
(*                                                                         *)
(* Objects.  The caller's array `data` holds the point objects; tableData  *)
(* inside computeXmrStats is a sequence of references (indices into data)  *)
(* to those same objects, so a status written through tableData is a       *)
(* status written to the caller's point.                                   *)
(*                                                                         *)
(* Charts.  createXmrChart of js/xmr-chart.ts holds two ECharts instances; *)
(* `chart` records what each of them was last told to show by setOption    *)
(* (title, axis names, data series) and the options of the latest call.    *)
(***************************************************************************)
EXTENDS Integers, Sequences, FiniteSets, TLC

VARIABLES data, stats, prev, calls, loop, chart

vars == <<data, stats, prev, calls, loop, chart>>

----------------------------------------------------------------------------
(* Bounds of the model *)

\* every series of the values 0, 1, 3 up to this length is an input
MaxSeries == 6
\* every non-decreasing series of the values 0, 1, 3 up to this length is one
MaxDrift == 10
\* longest input collection with arbitrary dates, missing fields and decimals
MaxShort == 3
\* number of computeXmrStats calls on one input
MaxCalls == 2

----------------------------------------------------------------------------
(* Fixed-point and rational arithmetic *)

Unit == 10 ^ 3

Abs(a) == IF a < 0 THEN -a ELSE a

RECURSIVE GCD(_, _)
GCD(a, b) == IF b = 0 THEN a ELSE GCD(b, a % b)

\* the rational n / d (d > 0) in lowest terms
Rat(n, d) == LET g == GCD(Abs(n), d) IN [n |-> n \div g, d |-> d \div g]

RInt(v) == [n |-> v, d |-> 1]
RAdd(a, b) == Rat(a.n * b.d + b.n * a.d, a.d * b.d)
RSub(a, b) == Rat(a.n * b.d - b.n * a.d, a.d * b.d)
RMul(a, b) == Rat(a.n * b.n, a.d * b.d)
RDivInt(a, k) == Rat(a.n, a.d * k)

Min2(a, b) == IF a <= b THEN a ELSE b
Max2(a, b) == IF a >= b THEN a ELSE b

RECURSIVE SumValues(_)
SumValues(s) == IF s = <<>> THEN 0 ELSE Head(s).value + SumValues(Tail(s))

----------------------------------------------------------------------------
(* Types and constants *)

NORMAL == 0
RUN_OF_EIGHT_EXCEPTION == 1
FOUR_NEAR_LIMIT_EXCEPTION == 2
NPL_EXCEPTION == 3

NPL_SCALING == [n |-> 266, d |-> 100]
URL_SCALING == [n |-> 3268, d |-> 1000]
DECIMAL_POINT == 2

\* IEEE +Infinity: larger than every number the bounded model computes
Infinity == 10 ^ 9

\* Math.round: the nearest integer to p / q (q > 0), a half going up (toward
\* +Infinity): floor(p / q + 1/2)
MathRoundAwayMutant(p, q) ==
    IF p >= 0 THEN (2 * p + q) \div (2 * q) ELSE -((2 * (-p) + q) \div (2 * q))

MathRound(p, q) == (2 * p + q) \div (2 * q)

\* round(n): Math.round(n * pow) / pow, for the rational x (in 1/Unit)
round(x) ==
    LET pow == 10 ^ DECIMAL_POINT
    IN  (MathRound(x.n, x.d * (Unit \div pow)) * Unit) \div pow

----------------------------------------------------------------------------
(* Dates *)

IsoDates ==
    << "2024-01-01", "2024-01-02", "2024-01-03", "2024-01-04", "2024-01-05",
       "2024-01-06", "2024-01-07", "2024-01-08", "2024-01-09", "2024-01-10",
       "2024-01-11", "2024-01-12" >>

\* dayjs(ds).valueOf(): two spellings of one day parse to the same instant
fromDateStr(ds) ==
    IF ds = "Jan 2, 2024" THEN 1
    ELSE (CHOOSE k \in 1..Len(IsoDates) : IsoDates[k] = ds) - 1

----------------------------------------------------------------------------
(* Preprocessing: the functions take the object store h (the caller's      *)
(* array) and a sequence dv of references into it                          *)

Deref(h, dv) == [k \in 1..Len(dv) |-> h[dv[k]]]

\* d.x && (d.value || d.value == 0): a missing value is a missing field
removeAllNullsDropZeroMutant(h, dv) ==
    SelectSeq(dv, LAMBDA r : /\ h[r].x # ""
                             /\ "value" \in DOMAIN h[r]
                             /\ h[r].value # 0)

removeAllNulls(h, dv) ==
    SelectSeq(dv, LAMBDA r : /\ h[r].x # ""
                             /\ "value" \in DOMAIN h[r]
                             /\ (h[r].value # 0 \/ h[r].value = 0))

\* Array.prototype.sort is stable: r goes behind every element that does not
\* compare greater than it
RECURSIVE SortInsertTiesFirstMutant(_, _, _)
SortInsertTiesFirstMutant(h, s, r) ==
    IF s = <<>> THEN <<r>>
    ELSE IF fromDateStr(h[Head(s)].x) - fromDateStr(h[r].x) < 0
         THEN <<Head(s)>> \o SortInsertTiesFirstMutant(h, Tail(s), r)
         ELSE <<r>> \o s

RECURSIVE SortInsert(_, _, _)
SortInsert(h, s, r) ==
    IF s = <<>> THEN <<r>>
    ELSE IF fromDateStr(h[Head(s)].x) - fromDateStr(h[r].x) <= 0
         THEN <<Head(s)>> \o SortInsert(h, Tail(s), r)
         ELSE <<r>> \o s

RECURSIVE SortFrom(_, _, _)
SortFrom(h, dv, acc) ==
    IF dv = <<>> THEN acc ELSE SortFrom(h, Tail(dv), SortInsert(h, acc, Head(dv)))

sortDataValues(h, dv) == SortFrom(h, dv, <<>>)

RECURSIVE ExtremesFrom(_, _, _)
ExtremesFrom(h, dv, acc) ==
    IF dv = <<>> THEN acc
    ELSE LET d == fromDateStr(h[Head(dv)].x)
         IN  ExtremesFrom(h, Tail(dv),
                          [min |-> Min2(acc.min, d), max |-> Max2(acc.max, d)])

findExtremesX(h, dv) == ExtremesFrom(h, dv, [min |-> Infinity, max |-> -Infinity])

----------------------------------------------------------------------------
(* Movements and limits: xdata is a sequence of points *)

getMovementsEarlierPointMutant(xdata) ==
    [k \in 1..(Len(xdata) - 1) |->
        [order |-> xdata[k].order, x |-> xdata[k].x,
         value |-> round(RInt(Abs(xdata[k + 1].value - xdata[k].value))),
         status |-> NORMAL]]

getMovementsShortLoopMutant(xdata) ==
    [k \in 1..(Len(xdata) - 2) |->
        [order |-> xdata[k + 1].order, x |-> xdata[k + 1].x,
         value |-> round(RInt(Abs(xdata[k + 1].value - xdata[k].value))),
         status |-> NORMAL]]

getMovements(xdata) ==
    [k \in 1..(Len(xdata) - 1) |->
        [order |-> xdata[k + 1].order, x |-> xdata[k + 1].x,
         value |-> round(RInt(Abs(xdata[k + 1].value - xdata[k].value))),
         status |-> NORMAL]]

calculateLimitsMeanOverPointsMutant(xdata) ==
    LET movements == getMovements(xdata)
        avgX == Rat(SumValues(xdata), Len(xdata))
        avgMovement == Rat(SumValues(movements), Max2(Len(xdata), 1))
        delta == RMul(NPL_SCALING, avgMovement)
        UNPL == RAdd(avgX, delta)
        LNPL == RSub(avgX, delta)
        URL == RMul(URL_SCALING, avgMovement)
        lowerQuartile == RDivInt(RAdd(LNPL, avgX), 2)
        upperQuartile == RDivInt(RAdd(UNPL, avgX), 2)
    IN  [avgX |-> round(avgX),
         avgMovement |-> round(avgMovement),
         UNPL |-> round(UNPL),
         LNPL |-> round(LNPL),
         URL |-> round(URL),
         lowerQuartile |-> round(lowerQuartile),
         upperQuartile |-> round(upperQuartile)]

calculateLimits(xdata) ==
    LET movements == getMovements(xdata)
        avgX == Rat(SumValues(xdata), Len(xdata))
        avgMovement == Rat(SumValues(movements), Max2(Len(movements), 1))
        delta == RMul(NPL_SCALING, avgMovement)
        UNPL == RAdd(avgX, delta)
        LNPL == RSub(avgX, delta)
        URL == RMul(URL_SCALING, avgMovement)
        lowerQuartile == RDivInt(RAdd(LNPL, avgX), 2)
        upperQuartile == RDivInt(RAdd(UNPL, avgX), 2)
    IN  [avgX |-> round(avgX),
         avgMovement |-> round(avgMovement),
         UNPL |-> round(UNPL),
         LNPL |-> round(LNPL),
         URL |-> round(URL),
         lowerQuartile |-> round(lowerQuartile),
         upperQuartile |-> round(upperQuartile)]

----------------------------------------------------------------------------
(* Exception detection checks.  Each loop is modelled by its loop state    *)
(* st (the series, the index i counted from 0 as in the source, and the    *)
(* loop's local variables) and one operator per loop body.                 *)

Bit(m, b) == (m \div (2 ^ b)) % 2
\* m |= 1 << b
BitSet(m, b) == IF Bit(m, b) = 1 THEN m ELSE m + 2 ^ b
\* m &= ~(1 << b)
BitClear(m, b) == IF Bit(m, b) = 1 THEN m - 2 ^ b ELSE m

\* data[j].status = s for j in lo..hi (indices counted from 0)
MarkRange(d, lo, hi, s) ==
    [k \in 1..Len(d) |->
        IF lo <= k - 1 /\ k - 1 <= hi THEN [d[k] EXCEPT !.status = s] ELSE d[k]]

\* first loop of checkRunOfEight, i in 0..6: bits are only set
RunPrime(st, avg) ==
    [st EXCEPT !.aboveOrBelow =
                  IF st.data[st.i + 1].value > avg
                  THEN BitSet(st.aboveOrBelow, st.i % 8) ELSE st.aboveOrBelow,
               !.i = st.i + 1]

\* second loop of checkRunOfEight, i in 7..length-1
RunBodyNoClearMutant(st, avg) ==
    LET i == st.i
        m == IF st.data[i + 1].value > avg
             THEN BitSet(st.aboveOrBelow, i % 8)
             ELSE st.aboveOrBelow
    IN  [data |-> IF m = 0 \/ m = 255
                  THEN MarkRange(st.data, i - 7, i, RUN_OF_EIGHT_EXCEPTION)
                  ELSE st.data,
         i |-> i + 1,
         aboveOrBelow |-> m]

RunBody(st, avg) ==
    LET i == st.i
        m == IF st.data[i + 1].value > avg
             THEN BitSet(st.aboveOrBelow, i % 8)
             ELSE BitClear(st.aboveOrBelow, i % 8)
    IN  [data |-> IF m = 0 \/ m = 255
                  THEN MarkRange(st.data, i - 7, i, RUN_OF_EIGHT_EXCEPTION)
                  ELSE st.data,
         i |-> i + 1,
         aboveOrBelow |-> m]

RECURSIVE RunLoop(_, _)
RunLoop(st, avg) ==
    IF st.i < 7 THEN RunLoop(RunPrime(st, avg), avg)
    ELSE IF st.i < Len(st.data) THEN RunLoop(RunBody(st, avg), avg)
    ELSE st

checkRunOfEight(d, avg) ==
    IF Len(d) < 8 THEN d
    ELSE RunLoop([data |-> d, i |-> 0, aboveOrBelow |-> 0], avg).data

\* the counting of one point, used with +1 (entering) and -1 (leaving)
FourCount(st, v, lowerQuartile, upperQuartile, by) ==
    IF v < lowerQuartile
    THEN [st EXCEPT !.belowQuartile = st.belowQuartile + by]
    ELSE IF v > upperQuartile
         THEN [st EXCEPT !.aboveQuartile = st.aboveQuartile + by]
         ELSE st

\* first loop of checkFourNearLimit, i in 0..2
FourPrime(st, lowerQuartile, upperQuartile) ==
    [FourCount(st, st.data[st.i + 1].value, lowerQuartile, upperQuartile, 1)
        EXCEPT !.i = st.i + 1]

\* second loop, first statement: count the entering point i
FourAdd(st, lowerQuartile, upperQuartile) ==
    FourCount(st, st.data[st.i + 1].value, lowerQuartile, upperQuartile, 1)

\* second loop, second statement: the test and the marking of i-3..i
FourMark(st) ==
    IF st.belowQuartile >= 3 \/ st.aboveQuartile >= 3
    THEN [st EXCEPT !.data = MarkRange(st.data, st.i - 3, st.i,
                                       FOUR_NEAR_LIMIT_EXCEPTION)]
    ELSE st

FourSubOffByOneMutant(st, lowerQuartile, upperQuartile) ==
    [FourCount(st, st.data[st.i - 2 + 1].value, lowerQuartile, upperQuartile, -1)
        EXCEPT !.i = st.i + 1]

\* second loop, third statement: uncount the leaving point i-3
FourSub(st, lowerQuartile, upperQuartile) ==
    [FourCount(st, st.data[st.i - 3 + 1].value, lowerQuartile, upperQuartile, -1)
        EXCEPT !.i = st.i + 1]

RECURSIVE FourLoop(_, _, _)
FourLoop(st, lowerQuartile, upperQuartile) ==
    IF st.i < 3
    THEN FourLoop(FourPrime(st, lowerQuartile, upperQuartile),
                  lowerQuartile, upperQuartile)
    ELSE IF st.i < Len(st.data)
         THEN FourLoop(FourSub(FourMark(FourAdd(st, lowerQuartile, upperQuartile)),
                               lowerQuartile, upperQuartile),
                       lowerQuartile, upperQuartile)
         ELSE st

checkFourNearLimit(d, lowerQuartile, upperQuartile) ==
    IF Len(d) < 4 THEN d
    ELSE FourLoop([data |-> d, i |-> 0, belowQuartile |-> 0, aboveQuartile |-> 0],
                  lowerQuartile, upperQuartile).data

checkOutsideLimitInclusiveMutant(d, lowerLimit, upperLimit) ==
    [k \in 1..Len(d) |->
        IF d[k].value < lowerLimit
        THEN [d[k] EXCEPT !.status = NPL_EXCEPTION]
        ELSE IF d[k].value >= upperLimit
             THEN [d[k] EXCEPT !.status = NPL_EXCEPTION]
             ELSE d[k]]

checkOutsideLimit(d, lowerLimit, upperLimit) ==
    [k \in 1..Len(d) |->
        IF d[k].value < lowerLimit
        THEN [d[k] EXCEPT !.status = NPL_EXCEPTION]
        ELSE IF d[k].value > upperLimit
             THEN [d[k] EXCEPT !.status = NPL_EXCEPTION]
             ELSE d[k]]

----------------------------------------------------------------------------
(* computeXmrStats *)

ResetStatusKeepMutant(d) == d

\* dv.status = DataStatus.NORMAL for every point of the series
ResetStatus(d) == [k \in 1..Len(d) |-> [d[k] EXCEPT !.status = NORMAL]]

WriteBackSortedInPlaceMutant(h, dv, td) ==
    [r \in 1..Len(h) |-> IF r <= Len(td) THEN td[r] ELSE h[r]]

\* the statuses written through tableData, seen in the caller's array
WriteBack(h, dv, td) ==
    [r \in 1..Len(h) |->
        IF \E k \in 1..Len(dv) : dv[k] = r
        THEN [h[r] EXCEPT !.status = td[CHOOSE k \in 1..Len(dv) : dv[k] = r].status]
        ELSE h[r]]

RECURSIVE WidenXMaxOnlyMutant(_, _)
WidenXMaxOnlyMutant(s, td) ==
    IF td = <<>> THEN s
    ELSE LET v == Head(td).value
         IN  WidenXMaxOnlyMutant(
                 IF v > s.xchartMax THEN [s EXCEPT !.xchartMax = v] ELSE s, Tail(td))

RECURSIVE WidenX(_, _)
WidenX(s, td) ==
    IF td = <<>> THEN s
    ELSE LET v == Head(td).value
             s1 == IF v > s.xchartMax THEN [s EXCEPT !.xchartMax = v] ELSE s
             s2 == IF v < s1.xchartMin THEN [s1 EXCEPT !.xchartMin = v] ELSE s1
         IN  WidenX(s2, Tail(td))

RECURSIVE WidenMr(_, _)
WidenMr(s, mv) ==
    IF mv = <<>> THEN s
    ELSE LET v == Head(mv).value
         IN  WidenMr(IF v > s.mrchartMax THEN [s EXCEPT !.mrchartMax = v] ELSE s,
                     Tail(mv))

EmptyStatsZeroBoundsMutant ==
    [xchartMin |-> 0, xchartMax |-> 0, mrchartMax |-> 0,
     lineValues |-> <<>>, xdataPerRange |-> <<>>, movementsPerRange |-> <<>>]

EmptyStats ==
    [xchartMin |-> Infinity, xchartMax |-> -Infinity, mrchartMax |-> -Infinity,
     lineValues |-> <<>>, xdataPerRange |-> <<>>, movementsPerRange |-> <<>>]

\* the statuses of the value series after the three checks
ValueChecksOutsideFirstMutant(td, lim) ==
    checkFourNearLimit(
        checkRunOfEight(
            checkOutsideLimit(ResetStatus(td), lim.LNPL, lim.UNPL),
            lim.avgX),
        lim.lowerQuartile, lim.upperQuartile)

ValueChecks(td, lim) ==
    checkOutsideLimit(
        checkFourNearLimit(
            checkRunOfEight(ResetStatus(td), lim.avgX),
            lim.lowerQuartile, lim.upperQuartile),
        lim.LNPL, lim.UNPL)

\* the result: the caller's array as the call leaves it, and the Stats
\* returned (the points of xdataPerRange are the caller's objects; their
\* fields are recorded as they are at the return)
computeXmrStats(h) ==
    LET tableData == sortDataValues(h, removeAllNulls(h, [k \in 1..Len(h) |-> k]))
        ext == findExtremesX(h, tableData)
        lim == calculateLimits(Deref(h, tableData))
        lv == [xLeft |-> ext.min, xRight |-> ext.max,
               avgX |-> lim.avgX, avgMovement |-> lim.avgMovement,
               UNPL |-> lim.UNPL, LNPL |-> lim.LNPL, URL |-> lim.URL,
               lowerQuartile |-> lim.lowerQuartile,
               upperQuartile |-> lim.upperQuartile]
        td == ValueChecks(Deref(h, tableData), lim)
        h1 == WriteBack(h, tableData, td)
        movements == checkOutsideLimit(ResetStatus(getMovements(td)), 0, lim.URL)
        s1 == [xchartMin |-> Min2(Infinity, lim.LNPL),
               xchartMax |-> Max2(-Infinity, lim.UNPL),
               mrchartMax |-> Max2(-Infinity, lim.URL),
               lineValues |-> <<lv>>,
               xdataPerRange |-> <<td>>,
               movementsPerRange |-> <<movements>>]
        kept == Deref(h1, removeAllNulls(h1, tableData))
    IN  IF Len(tableData) = 0
        THEN [data |-> h, stats |-> EmptyStats]
        ELSE [data |-> h1, stats |-> WidenMr(WidenX(s1, kept), movements)]

----------------------------------------------------------------------------
(* Inputs.  render (js/xmr-chart.ts) builds each point with order = its    *)
(* position in the input and status NORMAL.                                *)

\* whole-number values of the long series: 0, 1 and 3
LongValues == <<0, Unit, 3 * Unit>>

\* a series on consecutive days, in date order
MakeSeries(v) ==
    [k \in 1..Len(v) |-> [order |-> k - 1, x |-> IsoDates[k],
                          value |-> v[k], status |-> NORMAL]]

SeriesInputs ==
    UNION { { MakeSeries([k \in 1..n |-> LongValues[c[k]]]) : c \in [1..n -> 1..3] }
            : n \in 0..MaxSeries }

\* a zeros, then ones up to position b, then threes
DriftInputs ==
    UNION { { MakeSeries([k \in 1..n |-> IF k <= ab[1] THEN LongValues[1]
                                         ELSE IF k <= ab[2] THEN LongValues[2]
                                         ELSE LongValues[3]])
              : ab \in {p \in (0..n) \X (0..n) : p[1] <= p[2]} }
            : n \in 0..MaxDrift }

\* values of the short collections: -0.125 and 0
ShortValues == {-(Unit \div 8), 0}

\* date strings of the short collections
ShortDates == {"2024-01-01", "2024-01-02", "Jan 2, 2024"}

\* a point before its order is known; a missing value is a missing field,
\* a missing date is the empty string
ShortPoints ==
    { [x |-> d, value |-> v] : d \in ShortDates, v \in ShortValues }
        \cup { [x |-> "2024-01-01"], [x |-> "", value |-> 0] }

MakePoint(p, pos) ==
    IF "value" \in DOMAIN p
    THEN [order |-> pos, x |-> p.x, value |-> p.value, status |-> NORMAL]
    ELSE [order |-> pos, x |-> p.x, status |-> NORMAL]

ShortInputs ==
    UNION { { [k \in 1..n |-> MakePoint(f[k], k - 1)] : f \in [1..n -> ShortPoints] }
            : n \in 0..MaxShort }

\* eight tens and a hundred on nine consecutive days
ExampleValues == [k \in 1..9 |-> IF k <= 8 THEN 10 * Unit ELSE 100 * Unit]

ExampleInputs == {MakeSeries(ExampleValues)}

Inputs == SeriesInputs \cup DriftInputs \cup ShortInputs \cup ExampleInputs

Idle == [pc |-> "idle"]

\* no chart instance has been created
NoChart == [pc |-> "none"]

Init ==
    /\ data \in Inputs
    /\ stats = EmptyStats
    /\ prev = EmptyStats
    /\ calls = 0
    /\ chart = NoChart
    /\ loop = Idle

----------------------------------------------------------------------------
(* Operations *)

\* a call computeXmrStats(data); prev keeps the Stats of the call before
Call ==
    /\ calls < MaxCalls
    /\ LET r == computeXmrStats(data)
       IN  /\ data' = r.data
           /\ stats' = r.stats
    /\ prev' = stats
    /\ calls' = calls + 1
    /\ UNCHANGED <<loop, chart>>

\* the caller, who owns the points, overwrites their status fields between
\* calls (a copy of the input with other incoming statuses)
Restatus(s) ==
    /\ calls < MaxCalls
    /\ Len(data) <= MaxShort
    /\ data' = [k \in 1..Len(data) |-> [data[k] EXCEPT !.status = s]]
    /\ data' # data
    /\ UNCHANGED <<stats, prev, calls, loop, chart>>

Next ==
    \/ Call
    \/ \E s \in {NORMAL, NPL_EXCEPTION} : Restatus(s)

Spec == Init /\ [][Next]_vars

----------------------------------------------------------------------------
(* checkRunOfEight and checkFourNearLimit run on their own, one loop       *)
(* iteration (or statement) per step; loop holds the call's arguments,     *)
(* the series as passed (orig) and the loop state st                       *)

\* longest series passed to checkRunOfEight
MaxRun == 10
\* longest series passed to checkFourNearLimit
MaxFour == 6

\* incoming statuses of every kind: the point at index i (from 0) comes
\* with status (i + 2) % 4
MakeMarked(v) ==
    [k \in 1..Len(v) |-> [order |-> k - 1, x |-> IsoDates[k],
                          value |-> v[k], status |-> (k + 1) % 4]]

\* values 1 and 2 against the mean 1 (1 is on the mean) or the mean 1.5
RunValues == <<Unit, 2 * Unit>>
RunMeans == {Unit, (3 * Unit) \div 2}

InitRun ==
    /\ data = <<>>
    /\ stats = EmptyStats
    /\ prev = EmptyStats
    /\ calls = 0
    /\ chart = NoChart
    /\ \E n \in 0..MaxRun : \E c \in [1..n -> 1..2] : \E avg \in RunMeans :
          LET d == MakeMarked([k \in 1..n |-> RunValues[c[k]]])
          IN  loop = [pc |-> "start", avg |-> avg, orig |-> d,
                      st |-> [data |-> d, i |-> 0, aboveOrBelow |-> 0]]

\* if (data.length < 8) return; let aboveOrBelow = 0
RunEnter ==
    /\ loop.pc = "start"
    /\ loop' = [loop EXCEPT !.pc = IF Len(loop.orig) < 8 THEN "done" ELSE "prime"]
    /\ UNCHANGED <<data, stats, prev, calls, chart>>

RunPrimeStep ==
    /\ loop.pc = "prime"
    /\ loop.st.i < 7
    /\ loop' = [loop EXCEPT !.st = RunPrime(loop.st, loop.avg),
                            !.pc = IF loop.st.i + 1 < 7 THEN "prime" ELSE "body"]
    /\ UNCHANGED <<data, stats, prev, calls, chart>>

RunBodyStep ==
    /\ loop.pc = "body"
    /\ loop.st.i < Len(loop.st.data)
    /\ loop' = [loop EXCEPT !.st = RunBody(loop.st, loop.avg)]
    /\ UNCHANGED <<data, stats, prev, calls, chart>>

RunReturn ==
    /\ loop.pc = "body"
    /\ loop.st.i >= Len(loop.st.data)
    /\ loop' = [loop EXCEPT !.pc = "done"]
    /\ UNCHANGED <<data, stats, prev, calls, chart>>

NextRun == RunEnter \/ RunPrimeStep \/ RunBodyStep \/ RunReturn

SpecRunOfEight == InitRun /\ [][NextRun]_vars

\* values 0, 1, 3, 4 against the quarter markers 1 and 3
FourValues == <<0, Unit, 3 * Unit, 4 * Unit>>
FourLower == Unit
FourUpper == 3 * Unit

InitFour ==
    /\ data = <<>>
    /\ stats = EmptyStats
    /\ prev = EmptyStats
    /\ calls = 0
    /\ chart = NoChart
    /\ \E n \in 0..MaxFour : \E c \in [1..n -> 1..4] :
          LET d == MakeMarked([k \in 1..n |-> FourValues[c[k]]])
          IN  loop = [pc |-> "start", lowerQuartile |-> FourLower,
                      upperQuartile |-> FourUpper, orig |-> d,
                      st |-> [data |-> d, i |-> 0,
                              belowQuartile |-> 0, aboveQuartile |-> 0]]

\* if (data.length < 4) return; let belowQuartile = 0; let aboveQuartile = 0
FourEnter ==
    /\ loop.pc = "start"
    /\ loop' = [loop EXCEPT !.pc = IF Len(loop.orig) < 4 THEN "done" ELSE "prime"]
    /\ UNCHANGED <<data, stats, prev, calls, chart>>

FourPrimeStep ==
    /\ loop.pc = "prime"
    /\ loop.st.i < 3
    /\ loop' = [loop EXCEPT
                  !.st = FourPrime(loop.st, loop.lowerQuartile, loop.upperQuartile),
                  !.pc = IF loop.st.i + 1 < 3 THEN "prime" ELSE "add"]
    /\ UNCHANGED <<data, stats, prev, calls, chart>>

FourAddStep ==
    /\ loop.pc = "add"
    /\ loop.st.i < Len(loop.st.data)
    /\ loop' = [loop EXCEPT
                  !.st = FourAdd(loop.st, loop.lowerQuartile, loop.upperQuartile),
                  !.pc = "test"]
    /\ UNCHANGED <<data, stats, prev, calls, chart>>

FourMarkStep ==
    /\ loop.pc = "test"
    /\ loop' = [loop EXCEPT !.st = FourMark(loop.st), !.pc = "sub"]
    /\ UNCHANGED <<data, stats, prev, calls, chart>>

FourSubStep ==
    /\ loop.pc = "sub"
    /\ loop' = [loop EXCEPT
                  !.st = FourSub(loop.st, loop.lowerQuartile, loop.upperQuartile),
                  !.pc = "add"]
    /\ UNCHANGED <<data, stats, prev, calls, chart>>

FourReturn ==
    /\ loop.pc = "add"
    /\ loop.st.i >= Len(loop.st.data)
    /\ loop' = [loop EXCEPT !.pc = "done"]
    /\ UNCHANGED <<data, stats, prev, calls, chart>>

NextFour ==
    FourEnter \/ FourPrimeStep \/ FourAddStep \/ FourMarkStep \/ FourSubStep
        \/ FourReturn

SpecFourNearLimit == InitFour /\ [][NextFour]_vars

----------------------------------------------------------------------------
(* The chart instance of createXmrChart (js/xmr-chart.ts): two ECharts     *)
(* instances, xplot and mrplot, drawn by render from the caller's options. *)
(* A plot is recorded by what setOption last told it to show: its title,   *)
(* its axis names and its data series.                                     *)

\* longest data array of the options
MaxRows == 2

\* rows of the caller's data: two valid rows and one without a value
ChartRows ==
    { [x |-> "2024-01-01", value |-> 0],
      [x |-> "2024-01-02", value |-> Unit],
      [x |-> "2024-01-03"] }

\* the optional texts; "" is the option left out (or empty: both are falsy)
ChartTitles == {"", "Sales"}
ChartXLabels == {"", "Week"}
ChartYLabels == {"", "Units"}

XmrChartOptions ==
    UNION { { [data |-> d, title |-> t, xLabel |-> xl, yLabel |-> yl]
              : d \in [1..n -> ChartRows], t \in ChartTitles,
                xl \in ChartXLabels, yl \in ChartYLabels }
            : n \in 0..MaxRows }

\* a || b on strings
OrElse(a, b) == IF a # "" THEN a ELSE b

\* the item colour of a point
dataStatusColor(d) ==
    CASE d = RUN_OF_EIGHT_EXCEPTION -> "blue"
      [] d = FOUR_NEAR_LIMIT_EXCEPTION -> "orange"
      [] d = NPL_EXCEPTION -> "red"
      [] OTHER -> "black"

mapDataValueToChartDataPoint(dv) ==
    [value |-> <<fromDateStr(dv.x), dv.value>>,
     color |-> dataStatusColor(dv.status)]

\* i counts from 0
mapDataValuesToChartSeries(subD, i) ==
    [name |-> i,
     data |-> [k \in 1..Len(subD) |-> mapDataValueToChartDataPoint(subD[k])]]

MapSeries(ranges) ==
    [r \in 1..Len(ranges) |-> mapDataValuesToChartSeries(ranges[r], r - 1)]

\* an ECharts instance that no setOption has reached
initEChart == [title |-> "", xAxis |-> "", yAxis |-> "", series |-> <<>>]

\* const dataValues = opts.data.map((d, i) => ({order: i, ...}))
DataValuesOf(opts) ==
    [k \in 1..Len(opts.data) |-> MakePoint(opts.data[k], k - 1)]

\* what the setOption calls of render leave in the two plots
Drawn(opts, st) ==
    [xplot |-> [title |-> IF opts.title # "" THEN "X Plot: " \o opts.title
                          ELSE "X Plot",
                xAxis |-> OrElse(opts.xLabel, "Date"),
                yAxis |-> OrElse(opts.yLabel, "Value"),
                series |-> MapSeries(st.xdataPerRange)],
     mrplot |-> [title |-> IF opts.title # "" THEN "MR Plot: " \o opts.title
                           ELSE "MR Plot",
                 xAxis |-> OrElse(opts.xLabel, "Date"),
                 yAxis |-> OrElse(opts.yLabel, "Value"),
                 series |-> MapSeries(st.movementsPerRange)]]

\* render(opts) on the instance c; r is the result of computeXmrStats
render(c, opts, r) ==
    IF Len(r.stats.xdataPerRange) = 0
    THEN [c EXCEPT !.opts = opts]
    ELSE [c EXCEPT !.opts = opts,
                   !.xplot = Drawn(opts, r.stats).xplot,
                   !.mrplot = Drawn(opts, r.stats).mrplot]

\* createXmrChart(container, options): the two plots are initialised, then
\* render(options) runs
InitChart ==
    /\ prev = EmptyStats
    /\ calls = 0
    /\ loop = Idle
    /\ \E options \in XmrChartOptions :
          LET r == computeXmrStats(DataValuesOf(options))
          IN  /\ data = r.data
              /\ stats = r.stats
              /\ chart = render([pc |-> "live", opts |-> options,
                                 xplot |-> initEChart, mrplot |-> initEChart],
                                options, r)

\* instance.update(opts); calls on a destroyed instance are not modelled
update ==
    /\ chart.pc = "live"
    /\ \E opts \in XmrChartOptions :
          LET r == computeXmrStats(DataValuesOf(opts))
          IN  /\ data' = r.data
              /\ stats' = r.stats
              /\ chart' = render(chart, opts, r)
    /\ UNCHANGED <<prev, calls, loop>>

\* instance.destroy(): both plots are disposed
destroy ==
    /\ chart.pc = "live"
    /\ chart' = [chart EXCEPT !.pc = "destroyed"]
    /\ UNCHANGED <<data, stats, prev, calls, loop>>

NextChart == update \/ destroy

SpecChart == InitChart /\ [][NextChart]_vars

----------------------------------------------------------------------------
(* getMovements called on its own, on series whose points carry statuses   *)
(* of every kind, orders that do not follow the positions, and values of   *)
(* up to three decimal places                                              *)

\* longest series passed to getMovements
MaxMoves == 4

\* -0.125, 0, 0.005 and 1
MoveValues == <<-(Unit \div 8), 0, Unit \div 200, Unit>>

\* the point at index i (from 0) of n has order n - 1 - i
MakeMoves(v) ==
    [k \in 1..Len(v) |-> [order |-> Len(v) - k, x |-> IsoDates[k],
                          value |-> v[k], status |-> (k + 1) % 4]]

InitMovements ==
    /\ data = <<>>
    /\ stats = EmptyStats
    /\ prev = EmptyStats
    /\ calls = 0
    /\ chart = NoChart
    /\ \E n \in 0..MaxMoves : \E c \in [1..n -> 1..4] :
          LET d == MakeMoves([k \in 1..n |-> MoveValues[c[k]]])
          IN  loop = [pc |-> "start", orig |-> d, xdata |-> d]

\* const movements = getMovements(xdata), which only reads xdata
MovementsCall ==
    /\ loop.pc = "start"
    /\ loop' = [pc |-> "done", orig |-> loop.orig, xdata |-> loop.xdata,
                movements |-> getMovements(loop.xdata)]
    /\ UNCHANGED <<data, stats, prev, calls, chart>>

NextMovements == MovementsCall

SpecMovements == InitMovements /\ [][NextMovements]_vars

----------------------------------------------------------------------------
(* The rules as the documentation states them, by windows of the series    *)

\* point j (from 0) lies in a window of eight points i-7..i that are all
\* above avg or all not above avg
RunFlagged(vals, avg, j) ==
    \E i \in 7..(Len(vals) - 1) :
        /\ i - 7 <= j /\ j <= i
        /\ \/ \A k \in (i - 7)..i : vals[k + 1].value > avg
           \/ \A k \in (i - 7)..i : ~(vals[k + 1].value > avg)

BelowCount(vals, lq, i) == Cardinality({k \in (i - 3)..i : vals[k + 1].value < lq})
AboveCount(vals, uq, i) == Cardinality({k \in (i - 3)..i : vals[k + 1].value > uq})

\* point j (from 0) lies in a window of four points i-3..i of which at least
\* three are below lq or at least three are above uq
FourFlagged(vals, lq, uq, j) ==
    \E i \in 3..(Len(vals) - 1) :
        /\ i - 3 <= j /\ j <= i
        /\ (BelowCount(vals, lq, i) >= 3 \/ AboveCount(vals, uq, i) >= 3)

OutsideNatural(lv, v) == v < lv.LNPL \/ v > lv.UNPL

Returned == calls >= 1 /\ stats.lineValues # <<>>
annotatedValues == stats.xdataPerRange[1]
annotatedMovements == stats.movementsPerRange[1]
limitSet == stats.lineValues[1]

\* the highest severity among the rules that flag point j (from 0)
MaxSeverity(vals, lv, j) ==
    IF OutsideNatural(lv, vals[j + 1].value) THEN NPL_EXCEPTION
    ELSE IF FourFlagged(vals, lv.lowerQuartile, lv.upperQuartile, j)
         THEN FOUR_NEAR_LIMIT_EXCEPTION
         ELSE IF RunFlagged(vals, lv.avgX, j) THEN RUN_OF_EIGHT_EXCEPTION
              ELSE NORMAL

----------------------------------------------------------------------------
(* C1: after computeXmrStats the status of every point of the value series *)
(* is the highest-severity rule that flags it: OutsideLimit if its value   *)
(* is strictly outside [lowerNaturalLimit, upperNaturalLimit], else        *)
(* FourNearLimit if Rule B flags it, else RunOfEight if Rule A flags it,   *)
(* else Normal.                                                            *)
C1_StatusIsMaxSeverity ==
    Returned =>
        \A j \in 0..(Len(annotatedValues) - 1) :
            annotatedValues[j + 1].status = MaxSeverity(annotatedValues, limitSet, j)

\* a result where OutsideLimit overrode a point of a run of eight, and
\* FourNearLimit overrode another point of a run of eight
C1_Witness ==
    /\ Returned
    /\ \E j \in 0..(Len(annotatedValues) - 1) :
          /\ RunFlagged(annotatedValues, limitSet.avgX, j)
          /\ OutsideNatural(limitSet, annotatedValues[j + 1].value)
          /\ annotatedValues[j + 1].status = NPL_EXCEPTION
    /\ \E j \in 0..(Len(annotatedValues) - 1) :
          /\ RunFlagged(annotatedValues, limitSet.avgX, j)
          /\ FourFlagged(annotatedValues, limitSet.lowerQuartile,
                         limitSet.upperQuartile, j)
          /\ annotatedValues[j + 1].status = FOUR_NEAR_LIMIT_EXCEPTION

----------------------------------------------------------------------------
(* C2: checkRunOfEight sets RunOfEight on point j exactly when j lies in a *)
(* window i-7..i (i in 7..n-1) whose eight points are all above the mean   *)
(* or all not above it; every other point, and every point of a series     *)
(* shorter than 8, keeps its status; and the mask tested at index i is the *)
(* above-mean pattern of the points i-7..i.                                *)
C2_RunOfEightWindows ==
    /\ loop.pc = "done" /\ "aboveOrBelow" \in DOMAIN loop.st =>
          /\ Len(loop.st.data) = Len(loop.orig)
          /\ \A j \in 0..(Len(loop.orig) - 1) :
                loop.st.data[j + 1] =
                    [loop.orig[j + 1] EXCEPT !.status =
                        IF RunFlagged(loop.orig, loop.avg, j)
                        THEN RUN_OF_EIGHT_EXCEPTION
                        ELSE loop.orig[j + 1].status]
    /\ loop.pc \in {"body", "done"} /\ "aboveOrBelow" \in DOMAIN loop.st
            /\ loop.st.i >= 8 =>
          \A k \in (loop.st.i - 8)..(loop.st.i - 1) :
              (Bit(loop.st.aboveOrBelow, k % 8) = 1)
                  <=> (loop.orig[k + 1].value > loop.avg)

\* a finished call on ten points: the first is above the mean (its primed
\* bit is cleared when index 8 reuses it), the next eight lie on the mean and
\* are marked, the last is above the mean; the first and the last keep
\* their incoming statuses
C2_Witness ==
    /\ loop.pc = "done" /\ "aboveOrBelow" \in DOMAIN loop.st
    /\ Len(loop.orig) = 10
    /\ loop.orig[1].value > loop.avg
    /\ \A k \in 2..9 : /\ loop.orig[k].value = loop.avg
                       /\ loop.st.data[k].status = RUN_OF_EIGHT_EXCEPTION
    /\ loop.orig[10].value > loop.avg
    /\ loop.st.data[1].status = FOUR_NEAR_LIMIT_EXCEPTION
    /\ loop.st.data[10].status = NPL_EXCEPTION

----------------------------------------------------------------------------
(* C3: checkFourNearLimit sets FourNearLimit on point j exactly when j     *)
(* lies in a window i-3..i (i in 3..n-1) with at least 3 points strictly   *)
(* below lowerQuarterMarker or at least 3 strictly above                   *)
(* upperQuarterMarker; every other point, and every point of a series      *)
(* shorter than 4, keeps its status; at every test the two counters are    *)
(* the exact counts over the window i-3..i, within 0..4.                   *)
C3_FourNearLimitWindows ==
    /\ loop.pc = "done" /\ "belowQuartile" \in DOMAIN loop.st =>
          /\ Len(loop.st.data) = Len(loop.orig)
          /\ \A j \in 0..(Len(loop.orig) - 1) :
                loop.st.data[j + 1] =
                    [loop.orig[j + 1] EXCEPT !.status =
                        IF FourFlagged(loop.orig, loop.lowerQuartile,
                                       loop.upperQuartile, j)
                        THEN FOUR_NEAR_LIMIT_EXCEPTION
                        ELSE loop.orig[j + 1].status]
    /\ loop.pc = "test" =>
          /\ loop.st.belowQuartile =
                BelowCount(loop.orig, loop.lowerQuartile, loop.st.i)
          /\ loop.st.aboveQuartile =
                AboveCount(loop.orig, loop.upperQuartile, loop.st.i)
          /\ loop.st.belowQuartile \in 0..4
          /\ loop.st.aboveQuartile \in 0..4

\* a finished call on six points where exactly three of the first four are
\* above the upper marker (the fourth lies on it), all four are marked, and
\* the last point keeps an incoming status other than FourNearLimit
C3_Witness ==
    /\ loop.pc = "done" /\ "belowQuartile" \in DOMAIN loop.st
    /\ Len(loop.orig) = 6
    /\ AboveCount(loop.orig, loop.upperQuartile, 3) = 3
    /\ \E k \in 1..4 : loop.orig[k].value = loop.upperQuartile
    /\ \A k \in 1..4 : loop.st.data[k].status = FOUR_NEAR_LIMIT_EXCEPTION
    /\ ~FourFlagged(loop.orig, loop.lowerQuartile, loop.upperQuartile, 5)
    /\ loop.st.data[6].status = loop.orig[6].status
    /\ loop.orig[6].status # FOUR_NEAR_LIMIT_EXCEPTION

----------------------------------------------------------------------------
(* Rounding to 2 decimal places, stated as a relation: m is a multiple of  *)
(* 0.01 nearest to the rational x, with an exact half decided by the rule  *)

Cent == Unit \div (10 ^ DECIMAL_POINT)

\* halves go toward +Infinity: m - 0.005 <= x < m + 0.005
NearestHalfUp(m, x) ==
    /\ m % Cent = 0
    /\ 2 * m * x.d - Cent * x.d <= 2 * x.n
    /\ 2 * x.n < 2 * m * x.d + Cent * x.d

\* halves go away from zero
NearestHalfAway(m, x) ==
    /\ m % Cent = 0
    /\ IF x.n >= 0
       THEN /\ 2 * m * x.d - Cent * x.d <= 2 * x.n
            /\ 2 * x.n < 2 * m * x.d + Cent * x.d
       ELSE /\ 2 * m * x.d - Cent * x.d < 2 * x.n
            /\ 2 * x.n <= 2 * m * x.d + Cent * x.d

\* x lies exactly halfway between two multiples of 0.01
OnHalf(x) == (2 * x.n) % (Cent * x.d) = 0 /\ x.n % (Cent * x.d) # 0

\* the multiple of 0.01 nearest to the whole number v of 1/Unit, half up
HalfUpOf(v) ==
    CHOOSE m \in {Cent * q : q \in ((v \div Cent) - 1)..((v \div Cent) + 1)} :
        NearestHalfUp(m, RInt(v))

RECURSIVE SumInts(_)
SumInts(s) == IF s = <<>> THEN 0 ELSE Head(s) + SumInts(Tail(s))

AbsDiffs(vals) ==
    [k \in 1..(Len(vals) - 1) |-> Abs(vals[k + 1].value - vals[k].value)]

\* the unrounded values of the LimitSet fields, given the unrounded mean
\* movement mm
Unrounded(vals, mm) ==
    LET mean == Rat(SumValues(vals), Len(vals))
        upper == RAdd(mean, RMul(Rat(266, 100), mm))
        lower == RSub(mean, RMul(Rat(266, 100), mm))
    IN  [avgX |-> mean, avgMovement |-> mm, UNPL |-> upper, LNPL |-> lower,
         URL |-> RMul(Rat(3268, 1000), mm),
         lowerQuartile |-> RDivInt(RAdd(lower, mean), 2),
         upperQuartile |-> RDivInt(RAdd(upper, mean), 2)]

LimitFields ==
    {"avgX", "avgMovement", "UNPL", "LNPL", "URL", "lowerQuartile", "upperQuartile"}

\* mean of the absolute consecutive differences, denominator max(n-1, 1)
MeanOfDiffs(vals) == Rat(SumInts(AbsDiffs(vals)), Max2(Len(vals) - 1, 1))

\* mean of the absolute consecutive differences each rounded to 2 decimals
MeanOfRoundedDiffs(vals) ==
    Rat(SumInts([k \in 1..(Len(vals) - 1) |-> HalfUpOf(AbsDiffs(vals)[k])]),
        Max2(Len(vals) - 1, 1))

----------------------------------------------------------------------------
(* C4 as stated: every numeric field of the LimitSet equals its unrounded  *)
(* value (mean of values; mean of the absolute consecutive differences     *)
(* over max(n-1,1); mean +/- 2.66 meanMovement; 3.268 meanMovement; the    *)
(* midpoints) rounded to 2 decimals, halves away from zero.                *)
C4_Original ==
    Returned =>
        \A f \in LimitFields :
            NearestHalfAway(limitSet[f],
                            Unrounded(annotatedValues, MeanOfDiffs(annotatedValues))[f])

(* C4 amended: every numeric field of the LimitSet equals its unrounded    *)
(* value rounded to 2 decimals with halves toward +Infinity (Math.round),  *)
(* where the unrounded meanMovement is the mean of the movement values as  *)
(* getMovements yields them: each absolute difference rounded to 2         *)
(* decimals.                                                               *)
C4_RoundedHalfUp ==
    Returned =>
        \A f \in LimitFields :
            NearestHalfUp(limitSet[f],
                          Unrounded(annotatedValues,
                                    MeanOfRoundedDiffs(annotatedValues))[f])

\* a result of at least two points whose unrounded mean is negative and
\* exactly on a half, rounded up to the multiple above it
C4_Witness ==
    /\ Returned
    /\ Len(annotatedValues) >= 2
    /\ LET mean == Rat(SumValues(annotatedValues), Len(annotatedValues))
       IN  /\ mean.n < 0
           /\ OnHalf(mean)
           /\ limitSet.avgX * mean.d > mean.n

----------------------------------------------------------------------------
----------------------------------------------------------------------------
(* C6: cleaning keeps a record iff its date and its value are present (a   *)
(* value of zero is kept); a dropped record is in neither annotatedValues  *)
(* nor a source of a movement, and contributes to no LimitSet field and no *)
(* chart bound.                                                            *)
Present(d) == d.x # "" /\ "value" \in DOMAIN d

PresentOrders == {data[k].order : k \in {i \in 1..Len(data) : Present(data[i])}}

NumValues == IF stats.xdataPerRange = <<>> THEN 0 ELSE Len(stats.xdataPerRange[1])
NumMovements ==
    IF stats.movementsPerRange = <<>> THEN 0 ELSE Len(stats.movementsPerRange[1])

C6_CleaningDrops ==
    calls >= 1 =>
        /\ NumValues = Cardinality(PresentOrders)
        /\ \A k \in 1..NumValues :
              /\ annotatedValues[k].order \in PresentOrders
              /\ annotatedValues[k].x = data[annotatedValues[k].order + 1].x
              /\ annotatedValues[k].value = data[annotatedValues[k].order + 1].value
        /\ \A k \in 1..NumMovements : annotatedMovements[k].order \in PresentOrders
        /\ stats = computeXmrStats(SelectSeq(data, Present)).stats

\* a result that kept a zero value and dropped both a record without date
\* (its value zero) and a record without value
C6_Witness ==
    /\ calls >= 1
    /\ \E k \in 1..Len(data) : data[k].x = "" /\ "value" \in DOMAIN data[k]
    /\ \E k \in 1..Len(data) : data[k].x # "" /\ "value" \notin DOMAIN data[k]
    /\ NumValues = 1
    /\ annotatedValues[1].value = 0

----------------------------------------------------------------------------
(* C7: the number of annotated movements is max(number of annotated values *)
(* - 1, 0).                                                                *)
C7_MovementCount ==
    calls >= 1 => NumMovements = Max2(NumValues - 1, 0)

\* a result with three values and two movements
C7_Witness ==
    /\ calls >= 1
    /\ NumValues = 3
    /\ NumMovements = 2

----------------------------------------------------------------------------
(* C8: valueChartMin = min(lowerNaturalLimit, smallest value),             *)
(* valueChartMax = max(upperNaturalLimit, largest value), movementChartMax *)
(* = max(upperRangeLimit, largest movement); so no value lies outside      *)
(* [valueChartMin, valueChartMax] and no movement exceeds movementChartMax.*)
SetMin(S) == CHOOSE m \in S : \A y \in S : m <= y
SetMax(S) == CHOOSE m \in S : \A y \in S : m >= y
ValuesOf(sq) == {sq[k].value : k \in 1..Len(sq)}

C8_ChartBounds ==
    Returned =>
        /\ stats.xchartMin = SetMin({limitSet.LNPL} \cup ValuesOf(annotatedValues))
        /\ stats.xchartMax = SetMax({limitSet.UNPL} \cup ValuesOf(annotatedValues))
        /\ stats.mrchartMax = SetMax({limitSet.URL} \cup ValuesOf(annotatedMovements))
        /\ \A v \in ValuesOf(annotatedValues) :
              stats.xchartMin <= v /\ v <= stats.xchartMax
        /\ \A v \in ValuesOf(annotatedMovements) : v <= stats.mrchartMax

\* a result whose bounds were widened: a value below the lower limit and a
\* movement above the range limit
C8_Witness ==
    /\ Returned
    /\ stats.xchartMin < limitSet.LNPL
    /\ stats.mrchartMax > limitSet.URL

----------------------------------------------------------------------------
(* C9: with an empty cleaned series the result has no annotated values, no *)
(* annotated movements, no LimitSet, valueChartMin = +Infinity,            *)
(* valueChartMax = movementChartMax = -Infinity; otherwise it holds        *)
(* exactly one LimitSet.                                                   *)
C9_DegenerateResult ==
    calls >= 1 =>
        IF PresentOrders = {}
        THEN /\ stats.xdataPerRange = <<>>
             /\ stats.movementsPerRange = <<>>
             /\ stats.lineValues = <<>>
             /\ stats.xchartMin = Infinity
             /\ stats.xchartMax = -Infinity
             /\ stats.mrchartMax = -Infinity
        ELSE Len(stats.lineValues) = 1

\* a result for a non-empty input of which every record was dropped
C9_Witness ==
    /\ calls >= 1
    /\ Len(data) >= 2
    /\ PresentOrders = {}
    /\ stats.lineValues = <<>>
    /\ stats.xchartMin = Infinity

----------------------------------------------------------------------------
(* C10: the Stats of a call do not depend on the incoming status fields or *)
(* on an earlier call: the second call on the same raw input, whether on   *)
(* the same array or on a copy with other statuses, returns the Stats of   *)
(* the first.                                                              *)
C10_SameStats ==
    calls = 2 => stats = prev

\* two calls of which one got every status OutsideLimit and the other did
\* not: a dropped record still carries the status the caller wrote, a kept
\* point carries another
C10_Witness ==
    /\ calls = 2
    /\ Returned
    /\ \E k \in 1..Len(data) : ~Present(data[k]) /\ data[k].status = NPL_EXCEPTION
    /\ \E k \in 1..NumValues : annotatedValues[k].status # NPL_EXCEPTION

----------------------------------------------------------------------------
(* C11: after any sequence of createXmrChart and update calls on an        *)
(* instance that has not been destroyed, both charts show the data and the *)
(* labels of the most recent options, also when those options hold no      *)
(* valid data row: the X plot shows their value series and the MR plot     *)
(* their movements (no series when there is no valid row), under the       *)
(* titles and axis names the options give.  A plot that was never drawn    *)
(* has no title or axis to carry a label and is held to its data only.     *)

\* the options hold at least one row with a date and a value
HasValidRow(opts) ==
    \E k \in 1..Len(opts.data) :
        opts.data[k].x # "" /\ "value" \in DOMAIN opts.data[k]

\* the plot shows the series of want and, once it has been drawn at all,
\* the title and axis names of want
ShowsOptions(plot, want) ==
    /\ plot.series = want.series
    /\ plot # initEChart =>
          /\ plot.title = want.title
          /\ plot.xAxis = want.xAxis
          /\ plot.yAxis = want.yAxis

C11_ShowsLatestOptions ==
    chart.pc = "live" =>
        LET st == computeXmrStats(DataValuesOf(chart.opts)).stats
        IN  /\ ShowsOptions(chart.xplot, Drawn(chart.opts, st).xplot)
            /\ ShowsOptions(chart.mrplot, Drawn(chart.opts, st).mrplot)

\* an update without a valid row after a render with data: the plots still
\* show the earlier series and the earlier title
C11_StaleWitness ==
    /\ chart.pc = "live"
    /\ ~HasValidRow(chart.opts)
    /\ chart.opts.title = ""
    /\ chart.xplot.title = "X Plot: Sales"
    /\ Len(chart.xplot.series) = 1
    /\ Len(chart.xplot.series[1].data) = 2

----------------------------------------------------------------------------
(* C12: a call of computeXmrStats changes only the status field of the     *)
(* caller's points: the caller's array keeps its length and the order of   *)
(* its elements, every point keeps its order, date and value, and a record *)
(* dropped by cleaning keeps its status too.                               *)

C12_OnlyStatusChanges ==
    [][calls' = calls + 1 =>
          /\ Len(data') = Len(data)
          /\ \A k \in 1..Len(data) :
                /\ [data'[k] EXCEPT !.status = data[k].status] = data[k]
                /\ ~Present(data[k]) => data'[k] = data[k]]_vars

\* a call has run on an array that is not in date order and holds a dropped
\* record: the kept points were reset to NORMAL where they stood, the
\* dropped record still carries the status the caller gave it
C12_Witness ==
    /\ calls >= 1
    /\ Len(data) = 3
    /\ Present(data[1]) /\ Present(data[2]) /\ ~Present(data[3])
    /\ fromDateStr(data[1].x) > fromDateStr(data[2].x)
    /\ data[1].status = NORMAL /\ data[2].status = NORMAL
    /\ data[3].status = NPL_EXCEPTION
    /\ stats.xdataPerRange[1][1].order = 1

----------------------------------------------------------------------------
(* C13: the value series 10, 10, 10, 10, 10, 10, 10, 10, 100 over nine     *)
(* ascending dates.  The statement as given has upperRangeLimit 0; the     *)
(* code's upperRangeLimit is 3.268 times the mean of all eight movements,  *)
(* the final one included: 3.268 * 90 / 8 = 36.765, rounded to 36.77.      *)

\* a call has returned the result for the example series
ExampleReturned ==
    /\ Returned
    /\ Len(data) = Len(ExampleValues)
    /\ \A k \in 1..Len(data) :
          Present(data[k]) /\ data[k].value = ExampleValues[k]
    /\ \A k \in 1..(Len(data) - 1) :
          fromDateStr(data[k].x) < fromDateStr(data[k + 1].x)

\* the statement as given: the final movement is 90, upperRangeLimit is 0
\* and the final movement is marked NPL_EXCEPTION
C13_Original ==
    ExampleReturned =>
        /\ Len(annotatedMovements) = 8
        /\ annotatedMovements[8].value = 90 * Unit
        /\ limitSet.URL = 0
        /\ annotatedMovements[8].status = NPL_EXCEPTION

\* C13 as amended: the final movement is 90, upperRangeLimit is 36.77 and
\* the final movement, above it, is marked NPL_EXCEPTION
C13_ExampleSeries ==
    ExampleReturned =>
        /\ Len(annotatedMovements) = 8
        /\ annotatedMovements[8].value = 90 * Unit
        /\ limitSet.URL = 36 * Unit + 77 * (Unit \div 100)
        /\ annotatedMovements[8].status = NPL_EXCEPTION

\* the example has been computed: seven movements of 0 and one of 90, whose
\* mean is 11.25
C13_Witness ==
    /\ ExampleReturned
    /\ \A k \in 1..7 : annotatedMovements[k].value = 0
    /\ annotatedMovements[8].value = 90 * Unit
    /\ limitSet.avgMovement = 11 * Unit + 25 * (Unit \div 100)

----------------------------------------------------------------------------
(* C14: getMovements on a series of n points returns n - 1 points; the     *)
(* movement for source index i (1..n-1) carries the order and the date of  *)
(* source point i, the later of the two, and starts with status NORMAL     *)
(* whatever the statuses of the source points; the source series is not    *)
(* modified.  The statement as given has its value exactly                 *)
(* |v[i] - v[i-1]|; the code rounds that difference to 2 decimal places.   *)

\* what the statement says of everything but the value
MovementsShape ==
    /\ Len(loop.movements) = Max2(Len(loop.xdata) - 1, 0)
    /\ loop.xdata = loop.orig
    /\ \A i \in 1..(Len(loop.xdata) - 1) :
          /\ loop.movements[i].order = loop.xdata[i + 1].order
          /\ loop.movements[i].x = loop.xdata[i + 1].x
          /\ loop.movements[i].status = NORMAL

\* the statement as given: the value is exactly the absolute difference
C14_Original ==
    loop.pc = "done" =>
        /\ MovementsShape
        /\ \A i \in 1..(Len(loop.xdata) - 1) :
              loop.movements[i].value =
                  Abs(loop.xdata[i + 1].value - loop.xdata[i].value)

\* C14 as amended: the value is the absolute difference rounded to 2
\* decimal places, an exact half going toward +Infinity
C14_RoundedMovements ==
    loop.pc = "done" =>
        /\ MovementsShape
        /\ \A i \in 1..(Len(loop.xdata) - 1) :
              NearestHalfUp(loop.movements[i].value,
                  RInt(Abs(loop.xdata[i + 1].value - loop.xdata[i].value)))

\* getMovements has run on -0.125, 0, 0.005: the differences 0.125 and
\* 0.005 came out as 0.13 and 0.01, with status NORMAL beside source
\* statuses 2, 3 and 0
C14_Witness ==
    /\ loop.pc = "done"
    /\ Len(loop.xdata) = 3
    /\ loop.xdata[1].value = -(Unit \div 8) /\ loop.xdata[1].status = 2
    /\ loop.xdata[2].value = 0 /\ loop.xdata[2].status = 3
    /\ loop.xdata[3].value = Unit \div 200 /\ loop.xdata[3].status = 0
    /\ loop.movements[1].value = 13 * Cent
    /\ loop.movements[2].value = Cent
    /\ loop.movements[1].order = 1 /\ loop.movements[2].order = 0
    /\ loop.movements[1].status = NORMAL

----------------------------------------------------------------------------
(* C15: in every result of computeXmrStats each movement point has status  *)
(* NORMAL or NPL_EXCEPTION, never RUN_OF_EIGHT_EXCEPTION or                *)
(* FOUR_NEAR_LIMIT_EXCEPTION, and it is NPL_EXCEPTION exactly when its     *)
(* value is strictly greater than upperRangeLimit; movement values are not *)
(* negative, so the lower bound 0 flags none.  This holds whatever         *)
(* statuses the value points received.                                     *)

C15_MovementStatuses ==
    Returned =>
        \A k \in 1..NumMovements :
            /\ annotatedMovements[k].value >= 0
            /\ annotatedMovements[k].status \in {NORMAL, NPL_EXCEPTION}
            /\ annotatedMovements[k].status = NPL_EXCEPTION
                  <=> annotatedMovements[k].value > limitSet.URL

\* a result whose value points carry all three exception statuses, with a
\* movement above upperRangeLimit marked and a positive movement within it
\* left NORMAL
C15_Witness ==
    /\ Returned
    /\ \A s \in {RUN_OF_EIGHT_EXCEPTION, FOUR_NEAR_LIMIT_EXCEPTION, NPL_EXCEPTION} :
          \E k \in 1..NumValues : annotatedValues[k].status = s
    /\ \E k \in 1..NumMovements :
          /\ annotatedMovements[k].value > limitSet.URL
          /\ annotatedMovements[k].status = NPL_EXCEPTION
    /\ \E k \in 1..NumMovements :
          /\ annotatedMovements[k].value > 0
          /\ annotatedMovements[k].value <= limitSet.URL
          /\ annotatedMovements[k].status = NORMAL

====
